---- MODULE Spec2Model ----
(***************************************************************************)
(* Concurrent word-frequency counter (src/homework-1/example/counter.hpp): *)
(* a producer pushes file paths into ThreadSafeQueue, config.threads       *)
(* consumers pop them, tokenize every line into a private map, merge the   *)
(* private map into the sharded global table, and main ranks the result.   *)
(*                                                                         *)
(* Characters are their ASCII codes, a std::string is a sequence of codes, *)
(* an unordered_map is a function whose DOMAIN is the set of its keys.     *)
(* Counts are uint64_t in the code; no count of this model comes anywhere  *)
(* near 2^64, so they are plain naturals.                                  *)
(***************************************************************************)
EXTENDS Integers, Sequences, FiniteSets, TLC

\* ---------------------------------------------------------------- bounds
MaxThreads == 2
MaxLineLen == 4
MaxMinLen == 4
MaxTopM == 4
MaxCount == 2
MaxCloses == 2
IdModulus == 3      \* task_id_t is counted modulo IdModulus (2^32 in the code)
TimeModulus == 8    \* uint64_t milliseconds are counted modulo TimeModulus (2^64 in the code)
MaxTasks == 2       \* tasks registered at one time
MaxReady == 2       \* ids waiting in ready_tasks
MaxRemoved == 1     \* ids whose removal is remembered

\* ------------------------------------------------------ program constants
NUM_SHARDS == 16
NAME_SIZE == 32     \* sizeof(TaskInfo::name)

VARIABLES
  threads, top_m, min_len,              \* Config
  mainPc, toPush, pushed,               \* main: position, directory iterator, paths pushed
  q, mtx, waiters, producer_done,       \* ThreadSafeQueue: q, mtx, cv's wait set, producer_done
  pc, file_path, local_counts,          \* consumer: position, file_path, local_counts
  todo, cur, tmp,                       \* consumer merge loop: words left, current word, value read
  global_counts, global_counts_mtx,     \* the shards and their mutexes (holders)
  popped,                               \* history: <<path, worker>> of every pop that returned true
  late_pop,                             \* history: some pop returned true after set_done
  closes,                               \* history: number of set_done calls that returned
  output,                               \* what main prints: sequence of <<word, count>>
  line, local_map, map_before, tokPc,   \* one call of parse_line_and_count: its line, its map, the map before it
  next_id, tasks, ready_tasks,          \* TaskScheduler: next_id, tasks, ready_tasks
  call,                                 \* the scheduler call made last: its arguments and what it returned
  removed                               \* history: the first MaxRemoved ids for which scheduler_remove_task returned true

cfgVars == <<threads, top_m, min_len>>
mainVars == <<mainPc, toPush, pushed>>
queueVars == <<q, mtx, waiters, producer_done>>
workerVars == <<pc, file_path, local_counts, todo, cur, tmp>>
shardVars == <<global_counts, global_counts_mtx>>
tokVars == <<line, local_map, map_before, tokPc>>
hist == <<popped, late_pop, closes>>
schedVars == <<next_id, tasks, ready_tasks, call, removed>>
counterVars == <<cfgVars, mainVars, queueVars, workerVars, shardVars, hist, output, tokVars>>
vars == <<counterVars, schedVars>>

\* ------------------------------------------------------------- tokenizer
\* std::isalnum in the "C" locale, or '_'
is_word_char(c) ==
  \/ (c >= 48 /\ c <= 57)
  \/ (c >= 65 /\ c <= 90)
  \/ (c >= 97 /\ c <= 122)
  \/ c = 95

\* std::tolower in the "C" locale
tolower(c) == IF c >= 65 /\ c <= 90 THEN c + 32 ELSE c

EmptyMap == [w \in {} |-> 0]

\* map[word]++ on an unordered_map<string, uint64_t>: operator[] inserts 0 first
Increment(map, word) ==
  IF word \in DOMAIN map
    THEN [map EXCEPT ![word] = @ + 1]
    ELSE [w \in DOMAIN map \cup {word} |-> IF w = word THEN 1 ELSE map[w]]

\* the if of lines 131-133 and 138-140
Flush(current_word, min_len_, map) ==
  IF Len(current_word) >= min_len_ THEN Increment(map, current_word) ELSE map

\* variant: the token still open at the end of the line is dropped
TrailingFlushDropped(current_word, min_len_, map) == map

\* what follows the for loop (lines 138-140)
TrailingFlush(current_word, min_len_, map) == Flush(current_word, min_len_, map)

\* the for loop of lines 126-136 from index i on, then the trailing flush
RECURSIVE ParseFrom(_, _, _, _, _)
ParseFrom(line_, i, current_word, min_len_, map) ==
  IF i > Len(line_)
    THEN TrailingFlush(current_word, min_len_, map)
    ELSE IF is_word_char(line_[i])
      THEN ParseFrom(line_, i + 1, Append(current_word, tolower(line_[i])), min_len_, map)
      ELSE ParseFrom(line_, i + 1, <<>>, min_len_, Flush(current_word, min_len_, map))

parse_line_and_count(line_, min_len_, map) == ParseFrom(line_, 1, <<>>, min_len_, map)

\* ---------------------------------------------------- files of the run
\* The file-read collaborator (std::ifstream + std::getline): a path either
\* fails to open or yields its lines.
FileA == "A"
FileB == "B"
FileU == "U"
Paths == {FileA, FileB, FileU}

is_open(path) == path # FileU

\* A = "foo foo bar", B = "bar baz foo"
Lines(path) ==
  IF path = FileA THEN << <<102, 111, 111, 32, 102, 111, 111, 32, 98, 97, 114>> >>
  ELSE IF path = FileB THEN << <<98, 97, 114, 32, 98, 97, 122, 32, 102, 111, 111>> >>
  ELSE << >>

foo == <<102, 111, 111>>
bar == <<98, 97, 114>>
baz == <<98, 97, 122>>

\* What fs::recursive_directory_iterator may yield (each regular file once, in
\* an order the filesystem decides): A and B in either order, with the
\* unreadable path absent or at any position.
FileLists ==
  { <<FileA, FileB>>, <<FileB, FileA>>,
    <<FileU, FileA, FileB>>, <<FileA, FileU, FileB>>, <<FileA, FileB, FileU>>,
    <<FileU, FileB, FileA>>, <<FileB, FileU, FileA>>, <<FileB, FileA, FileU>> }

TopMs == {2}
MinLens == {1, 4}

\* while (std::getline(file, line)) parse_line_and_count(line, min_len, local_counts)
RECURSIVE ParseLines(_, _, _, _)
ParseLines(lines, i, min_len_, map) ==
  IF i > Len(lines) THEN map
  ELSE ParseLines(lines, i + 1, min_len_, parse_line_and_count(lines[i], min_len_, map))

\* ------------------------------------------------------------- sharding
Shards == 0 .. (NUM_SHARDS - 1)

\* std::hash<std::string>: implementation-defined, a pure function of the
\* word's content. This one sends "bar" and "baz" to the same shard (15) and
\* "foo" to another (5), so that merges of different words meet both ways.
RECURSIVE HashFrom(_, _)
HashFrom(word, i) ==
  IF i > Len(word) THEN 0 ELSE word[i] * (i + 1) + HashFrom(word, i + 1)

get_shard_index(word) == HashFrom(word, 1) % NUM_SHARDS

\* ------------------------------------------------------ ThreadSafeQueue
Workers == 1 .. threads
MainHolder == {0}

\* variant: the item goes to the front of the queue
EnqueueAtFront(s, item) == <<item>> \o s

\* q.push(item) (line 94)
Enqueue(s, item) == Append(s, item)

\* q.front() (line 106)
Front(s) == Head(s)

\* variant: the front item stays in the queue
QueueAfterPopKept(s) == s

\* q.pop() (line 107)
QueueAfterPop(s) == Tail(s)

\* cv.notify_one(): wakes one waiting thread, if any
NotifyOne(ws) == IF ws = {} THEN {ws} ELSE { ws \ {w} : w \in ws }

\* variant: set_done wakes one waiter only
NotifyAllWakesOne(ws) == NotifyOne(ws)

\* cv.notify_all() (line 114)
NotifyAll(ws) == { {} }

\* the predicate of cv.wait (line 100)
WaitPredicate == q # <<>> \/ producer_done

\* variant: end-of-input as soon as the producer is done
EndOfInputIgnoresQueue == producer_done

\* the test of line 102
EndOfInput == q = <<>> /\ producer_done

\* ------------------------------------------------------------ main thread
\* std::lock_guard in push (line 93)
MainPushLock ==
  /\ mainPc = "push" /\ toPush # <<>> /\ mtx = {}
  /\ mtx' = MainHolder
  /\ mainPc' = "push_locked"
  /\ UNCHANGED <<cfgVars, toPush, pushed, q, waiters, producer_done, workerVars,
                 shardVars, hist, output, tokVars, schedVars>>

\* q.push; cv.notify_one(); unlock (lines 94-96), then the iterator advances
MainPush ==
  /\ mainPc = "push_locked"
  /\ q' = Enqueue(q, Head(toPush))
  /\ pushed' = Append(pushed, Head(toPush))
  /\ toPush' = Tail(toPush)
  /\ waiters' \in NotifyOne(waiters)
  /\ mtx' = {}
  /\ mainPc' = IF Tail(toPush) = <<>> THEN "set_done" ELSE "push"
  /\ UNCHANGED <<cfgVars, producer_done, workerVars, shardVars, hist, output, tokVars, schedVars>>

\* the directory iterator throws fs::filesystem_error: the loop is left and the
\* iterator destroyed (lines 198-200)
MainFsError ==
  /\ mainPc = "push" /\ toPush # <<>>
  /\ toPush' = <<>>
  /\ mainPc' = "set_done"
  /\ UNCHANGED <<cfgVars, pushed, queueVars, workerVars, shardVars, hist, output, tokVars, schedVars>>

\* std::lock_guard in set_done (line 112)
MainSetDoneLock ==
  /\ mainPc = "set_done" /\ mtx = {}
  /\ mtx' = MainHolder
  /\ mainPc' = "set_done_locked"
  /\ UNCHANGED <<cfgVars, toPush, pushed, q, waiters, producer_done, workerVars,
                 shardVars, hist, output, tokVars, schedVars>>

\* variant: set_done flips the flag
set_done_flips ==
  /\ producer_done' = ~producer_done
  /\ waiters' \in NotifyAll(waiters)
  /\ mtx' = {}

\* producer_done = true; cv.notify_all(); unlock (lines 113-115)
set_done ==
  /\ producer_done' = TRUE
  /\ waiters' \in NotifyAll(waiters)
  /\ mtx' = {}

MainSetDone ==
  /\ mainPc = "set_done_locked"
  /\ set_done
  /\ mainPc' = "join"
  /\ closes' = closes + 1
  /\ UNCHANGED <<cfgVars, toPush, pushed, q, workerVars, shardVars, popped, late_pop,
                 output, tokVars, schedVars>>

\* a caller that closes the queue once more (set_done is public, lines 111-115)
MainSetDoneAgain ==
  /\ mainPc = "join" /\ closes < MaxCloses
  /\ mainPc' = "set_done"
  /\ UNCHANGED <<cfgVars, toPush, pushed, queueVars, workerVars, shardVars, hist,
                 output, tokVars, schedVars>>

\* variant: main goes on without joining the workers
MainJoinDetached ==
  /\ mainPc = "join"
  /\ mainPc' = "rank"
  /\ UNCHANGED <<cfgVars, toPush, pushed, queueVars, workerVars, shardVars, hist,
                 output, tokVars, schedVars>>

\* worker.join() for every worker (lines 204-208)
MainJoin ==
  /\ mainPc = "join"
  /\ \A w \in Workers : pc[w] = "done"
  /\ mainPc' = "rank"
  /\ UNCHANGED <<cfgVars, toPush, pushed, queueVars, workerVars, shardVars, hist,
                 output, tokVars, schedVars>>

\* --------------------------------------------------------------- consumer
\* std::unique_lock in pop (line 99)
PopLock(w) ==
  /\ pc[w] = "pop" /\ mtx = {}
  /\ mtx' = {w}
  /\ pc' = [pc EXCEPT ![w] = "pop_locked"]
  /\ UNCHANGED <<cfgVars, mainVars, q, waiters, producer_done, file_path, local_counts,
                 todo, cur, tmp, shardVars, hist, output, tokVars, schedVars>>

\* cv.wait finds its predicate false: unlocks and blocks (line 100)
PopWait(w) ==
  /\ pc[w] = "pop_locked" /\ ~WaitPredicate
  /\ mtx' = {}
  /\ waiters' = waiters \cup {w}
  /\ pc' = [pc EXCEPT ![w] = "waiting"]
  /\ UNCHANGED <<cfgVars, mainVars, q, producer_done, file_path, local_counts,
                 todo, cur, tmp, shardVars, hist, output, tokVars, schedVars>>

\* a notified (or spuriously woken) waiter takes the mutex again and re-tests
PopWake(w) ==
  /\ pc[w] = "waiting" /\ w \notin waiters /\ mtx = {}
  /\ mtx' = {w}
  /\ pc' = [pc EXCEPT ![w] = "pop_locked"]
  /\ UNCHANGED <<cfgVars, mainVars, q, waiters, producer_done, file_path, local_counts,
                 todo, cur, tmp, shardVars, hist, output, tokVars, schedVars>>

\* condition variables may wake a waiter that nobody notified
SpuriousWake(w) ==
  /\ pc[w] = "waiting" /\ w \in waiters
  /\ waiters' = waiters \ {w}
  /\ UNCHANGED <<cfgVars, mainVars, q, mtx, producer_done, workerVars, shardVars,
                 hist, output, tokVars, schedVars>>

\* variant: the consumer goes back to its pop loop after its merge
ConsumerPopsAgain(w) ==
  /\ pc' = [pc EXCEPT ![w] = "pop"]
  /\ local_counts' = [local_counts EXCEPT ![w] = EmptyMap]
  /\ file_path' = [file_path EXCEPT ![w] = ""]
  /\ todo' = [todo EXCEPT ![w] = {}]
  /\ cur' = [cur EXCEPT ![w] = <<>>]

\* consumer returns (line 174): its locals local_counts and file_path are
\* destroyed, the thread is joinable
ConsumerReturns(w) ==
  /\ pc' = [pc EXCEPT ![w] = "done"]
  /\ local_counts' = [local_counts EXCEPT ![w] = EmptyMap]
  /\ file_path' = [file_path EXCEPT ![w] = ""]
  /\ todo' = [todo EXCEPT ![w] = {}]
  /\ cur' = [cur EXCEPT ![w] = <<>>]

\* variant: the next word is merged without the lock_guard of its shard
MergeNextUnlocked(w, left) ==
  /\ pc' = [pc EXCEPT ![w] = "merge_read"]
  /\ todo' = [todo EXCEPT ![w] = left]
  /\ \E word \in left : cur' = [cur EXCEPT ![w] = word]
  /\ UNCHANGED <<local_counts, file_path>>

\* the range-for of line 169 moves to some word of local_counts not yet merged
MergeNext(w, left) ==
  /\ pc' = [pc EXCEPT ![w] = "merge_lock"]
  /\ todo' = [todo EXCEPT ![w] = left]
  /\ \E word \in left : cur' = [cur EXCEPT ![w] = word]
  /\ UNCHANGED <<local_counts, file_path, schedVars>>

\* pop returns false (lines 102-104); the while loop of consumer ends and the
\* merge loop starts (line 169)
PopEnd(w) ==
  /\ pc[w] = "pop_locked" /\ WaitPredicate /\ EndOfInput
  /\ mtx' = {}
  /\ IF DOMAIN local_counts[w] = {}
       THEN ConsumerReturns(w)
       ELSE MergeNext(w, DOMAIN local_counts[w])
  /\ UNCHANGED <<cfgVars, mainVars, q, waiters, producer_done,
                 tmp, shardVars, hist, output, tokVars, schedVars>>

\* pop moves q.front() out and returns true (lines 106-108)
PopTake(w) ==
  /\ pc[w] = "pop_locked" /\ WaitPredicate /\ ~EndOfInput
  /\ q # <<>>
  /\ file_path' = [file_path EXCEPT ![w] = Front(q)]
  /\ q' = QueueAfterPop(q)
  /\ popped' = Append(popped, <<Front(q), w>>)
  /\ late_pop' = (late_pop \/ producer_done)
  /\ mtx' = {}
  /\ pc' = [pc EXCEPT ![w] = "read"]
  /\ UNCHANGED <<cfgVars, mainVars, waiters, producer_done, local_counts,
                 todo, cur, tmp, shardVars, closes, output, tokVars, schedVars>>

\* variant: the consumer returns when a file does not open
AfterOpenFailReturn == "done"

\* where the consumer goes when the file does not open: continue (line 160)
AfterOpenFail == "pop"

\* the file does not open: diagnostic, continue (lines 158-161)
OpenFail(w) ==
  /\ pc[w] = "read" /\ ~is_open(file_path[w])
  /\ pc' = [pc EXCEPT ![w] = AfterOpenFail]
  /\ UNCHANGED <<cfgVars, mainVars, queueVars, file_path, local_counts, todo, cur, tmp,
                 shardVars, hist, output, tokVars, schedVars>>

\* every line of the file is tokenized into local_counts (lines 163-166)
ReadFile(w) ==
  /\ pc[w] = "read" /\ is_open(file_path[w])
  /\ local_counts' = [local_counts EXCEPT
        ![w] = ParseLines(Lines(file_path[w]), 1, min_len, local_counts[w])]
  /\ pc' = [pc EXCEPT ![w] = "pop"]
  /\ UNCHANGED <<cfgVars, mainVars, queueVars, file_path, todo, cur, tmp,
                 shardVars, hist, output, tokVars, schedVars>>

\* variant: the shard is entered without its lock
ShardFreeAlways(shard) == TRUE

\* std::lock_guard on the shard of the current word can be taken (line 171)
ShardFree(shard) == global_counts_mtx[shard] = {}

\* variant: = in place of +=
MergedValueOverwrite(old, count) == count

\* the value += stores (line 172)
MergedValue(old, count) == old + count

\* variant: the lock_guard does not unlock
UnlockForgotten(holders, w) == holders

\* the lock_guard of line 171 unlocks at the end of the loop body (line 173)
Unlock(holders, w) == holders \ {w}

MergeLock(w) ==
  /\ pc[w] = "merge_lock"
  /\ ShardFree(get_shard_index(cur[w]))
  /\ global_counts_mtx' = [global_counts_mtx EXCEPT
        ![get_shard_index(cur[w])] = @ \cup {w}]
  /\ pc' = [pc EXCEPT ![w] = "merge_read"]
  /\ UNCHANGED <<cfgVars, mainVars, queueVars, file_path, local_counts, todo, cur, tmp,
                 global_counts, hist, output, tokVars, schedVars>>

\* global_counts[shard][word] += count, its read half: operator[] inserts a zero
\* entry for a new word and the old value is loaded (line 172)
MergeRead(w) ==
  /\ pc[w] = "merge_read"
  /\ LET shard == get_shard_index(cur[w])
         old == IF cur[w] \in DOMAIN global_counts[shard]
                  THEN global_counts[shard][cur[w]] ELSE 0
     IN /\ tmp' = [tmp EXCEPT ![w] = old]
        /\ global_counts' = [global_counts EXCEPT ![shard] =
              [x \in DOMAIN @ \cup {cur[w]} |-> IF x = cur[w] THEN old ELSE @[x]]]
  /\ pc' = [pc EXCEPT ![w] = "merge_write"]
  /\ UNCHANGED <<cfgVars, mainVars, queueVars, file_path, local_counts, todo, cur,
                 global_counts_mtx, hist, output, tokVars, schedVars>>

\* its write half, the lock_guard's unlock, and the loop's step to the next
\* word or the consumer's return (lines 169-174)
MergeWrite(w) ==
  /\ pc[w] = "merge_write"
  /\ LET shard == get_shard_index(cur[w])
         left == todo[w] \ {cur[w]}
     IN /\ global_counts' = [global_counts EXCEPT ![shard] =
              [x \in DOMAIN @ \cup {cur[w]} |->
                 IF x = cur[w] THEN MergedValue(tmp[w], local_counts[w][cur[w]]) ELSE @[x]]]
        /\ global_counts_mtx' = [global_counts_mtx EXCEPT ![shard] = Unlock(@, w)]
        /\ IF left = {} THEN ConsumerReturns(w) ELSE MergeNext(w, left)
  /\ tmp' = [tmp EXCEPT ![w] = 0]
  /\ UNCHANGED <<cfgVars, mainVars, queueVars, hist, output, tokVars, schedVars>>

\* ---------------------------------------------------------------- ranking
\* std::string operator< : lexicographic, a proper prefix is smaller
StrLess(a, b) ==
  \E i \in 1 .. Len(b) :
    /\ \A j \in 1 .. (i - 1) : j <= Len(a) /\ a[j] = b[j]
    /\ (i > Len(a) \/ a[i] < b[i])

\* variant: no tie-break on the word
CompareCountOnly(a, b) == a[2] > b[2]

\* the comparator of partial_sort (lines 222-228) on pairs <<word, count>>
Compare(a, b) == IF a[2] # b[2] THEN a[2] > b[2] ELSE StrLess(a[1], b[1])

\* the entries of the shards as <<shard, word>>
Entries(gc) ==
  UNION { { <<sh, w>> : w \in DOMAIN gc[sh] } : sh \in Shards }

\* sorted_words after the loops of lines 211-215: shard 0 first, each shard's
\* entries in the order its unordered_map iterates them (any order)
Flattenings(gc) ==
  LET E == Entries(gc)
      n == Cardinality(E)
      orders == { f \in [1 .. n -> E] :
                    /\ \A i, j \in 1 .. n : i < j => f[i] # f[j] /\ f[i][1] <= f[j][1] }
  IN { [i \in 1 .. n |-> <<f[i][2], gc[f[i][1]][f[i][2]]>>] : f \in orders }

\* the position in i .. Len(s) of the element that Compare puts first
RECURSIVE MinIdx(_, _, _)
MinIdx(s, j, best) ==
  IF j > Len(s) THEN best
  ELSE MinIdx(s, j + 1, IF Compare(s[j], s[best]) THEN j ELSE best)

Swap(s, i, j) == [s EXCEPT ![i] = s[j], ![j] = s[i]]

\* std::partial_sort(first, first + k, last, Compare): positions 1 .. k end up
\* holding the k first elements under Compare, in order
RECURSIVE PartialSortFrom(_, _, _)
PartialSortFrom(s, i, k) ==
  IF i > k THEN s
  ELSE PartialSortFrom(Swap(s, i, MinIdx(s, i + 1, i)), i + 1, k)

partial_sort(s, k) == PartialSortFrom(s, 1, k)

\* variant: top_m is ignored
CountToShowAll(m, n) == n

\* std::min(top_m, sorted_words.size()) (lines 217-218)
count_to_show(m, n) == IF m < n THEN m ELSE n

\* lines 210-232: the printed pairs
Ranked(sorted_words, m) ==
  LET k == count_to_show(m, Len(sorted_words))
  IN SubSeq(partial_sort(sorted_words, k), 1, k)

MainRank ==
  /\ mainPc = "rank"
  /\ \E sorted_words \in Flattenings(global_counts) :
       output' = Ranked(sorted_words, top_m)
  /\ mainPc' = "done"
  /\ UNCHANGED <<cfgVars, toPush, pushed, queueVars, workerVars, shardVars, hist, tokVars, schedVars>>

\* ========================================================= task scheduler
\* src/unnamed/part_003.  A task_id_t is a number modulo IdModulus and a
\* uint64_t a number modulo TimeModulus; a task name is a sequence of character
\* codes; tasks is a function from the registered ids to their InternalTask.
U32(x) == x % IdModulus
U64(x) == x % TimeModulus

NULL == "NULL"
TheScheduler == "scheduler"
Schedulers == {NULL, TheScheduler}

\* a null const char *
NullName == <<-1>>

NoTasks == [id \in {} |-> 0]

\* a TaskInfo nothing was written to
NoInfo == [id |-> 0, name |-> <<>>, period_ms |-> 0, next_run_ms |-> 0]

\* what a call is recorded as: its arguments (id, name, period_ms, ms,
\* buffer_size; of a call with a null pointer argument only null_arg), its return
\* value (ret for task_id_t and size_t, success for bool), what it wrote
\* through its out parameters, the sorted events of an update, and whether it
\* returned
NoCall ==
  [op |-> "scheduler_create", null_arg |-> FALSE, id |-> 0, name |-> <<>>,
   period_ms |-> 0, ms |-> 0, buffer_size |-> 0, ret |-> 0, success |-> FALSE, out_buffer |-> <<>>,
   info |-> NoInfo, events |-> <<>>, returns |-> TRUE]

\* new TaskScheduler() (lines 19-22, 27)
scheduler_create ==
  /\ next_id = 1
  /\ tasks = NoTasks
  /\ ready_tasks = <<>>
  /\ call = NoCall
  /\ removed = {}

\* scheduler->tasks[id] = task (line 44): inserts, or overwrites the task
\* that has this id
Store(map, id, task) ==
  [x \in DOMAIN map \cup {id} |-> IF x = id THEN task ELSE map[x]]

\* tasks.erase(id) (lines 53, 119)
Erase(map, id) == [x \in DOMAIN map \ {id} |-> map[x]]

\* lines 31-47
scheduler_add_task(scheduler, name, period_ms, start_ms) ==
  /\ call.returns
  /\ IF scheduler = NULL \/ name = NullName
       THEN /\ call' = [NoCall EXCEPT !.op = "scheduler_add_task", !.ret = 0,
                          !.null_arg = TRUE]
            /\ UNCHANGED <<next_id, tasks, ready_tasks>>
       ELSE LET id == next_id
                task == [id |-> id, name |-> name, period_ms |-> period_ms,
                         next_run_ms |-> start_ms]
            IN /\ next_id' = U32(next_id + 1)
               /\ tasks' = Store(tasks, id, task)
               /\ Cardinality(DOMAIN tasks') <= MaxTasks
               /\ call' = [NoCall EXCEPT !.op = "scheduler_add_task", !.name = name,
                             !.period_ms = period_ms, !.ms = start_ms, !.ret = id]
               /\ UNCHANGED ready_tasks
  /\ UNCHANGED <<removed, counterVars>>

\* lines 49-54
scheduler_remove_task(scheduler, id) ==
  /\ call.returns
  /\ IF scheduler = NULL
       THEN /\ call' = [NoCall EXCEPT !.op = "scheduler_remove_task",
                          !.null_arg = TRUE]
            /\ UNCHANGED <<tasks, removed>>
       ELSE /\ tasks' = Erase(tasks, id)
            /\ call' = [NoCall EXCEPT !.op = "scheduler_remove_task", !.id = id,
                          !.success = (id \in DOMAIN tasks)]
            /\ removed' = IF id \in DOMAIN tasks /\ Cardinality(removed \cup {id}) <= MaxRemoved
                             THEN removed \cup {id} ELSE removed
  /\ UNCHANGED <<next_id, ready_tasks, counterVars>>

\* std::snprintf(info->name, sizeof(info->name), "%s", ...) (line 69): at most
\* NAME_SIZE - 1 characters and the terminating zero are written
snprintf(size, str) ==
  IF Len(str) < size THEN str ELSE SubSeq(str, 1, size - 1)

\* lines 56-74
scheduler_get_task_info(scheduler, id, info) ==
  /\ call.returns
  /\ IF scheduler = NULL \/ info = NULL
       THEN call' = [NoCall EXCEPT !.op = "scheduler_get_task_info",
                       !.null_arg = TRUE]
       ELSE IF id \notin DOMAIN tasks
       THEN call' = [NoCall EXCEPT !.op = "scheduler_get_task_info", !.id = id]
       ELSE LET task == tasks[id]
            IN call' = [NoCall EXCEPT !.op = "scheduler_get_task_info", !.id = id,
                          !.success = TRUE,
                          !.info = [id |-> task.id,
                                    name |-> snprintf(NAME_SIZE, task.name),
                                    period_ms |-> task.period_ms,
                                    next_run_ms |-> task.next_run_ms]]
  /\ UNCHANGED <<next_id, tasks, ready_tasks, removed, counterVars>>

\* lines 76-80
scheduler_get_task_count(scheduler) ==
  /\ call.returns
  /\ call' = [NoCall EXCEPT !.op = "scheduler_get_task_count",
                !.null_arg = (scheduler = NULL),
                !.ret = IF scheduler = NULL THEN 0 ELSE Cardinality(DOMAIN tasks)]
  /\ UNCHANGED <<next_id, tasks, ready_tasks, removed, counterVars>>

\* variant: events are compared by run time alone
EventLessByRunTime(a, b) == a[1] < b[1]

\* Event::operator< (lines 89-93) on events <<run_time, id>>
EventLess(a, b) == IF a[1] # b[1] THEN a[1] < b[1] ELSE a[2] < b[2]

\* std::sort(events.begin(), events.end()) (line 112), as an insertion sort:
\* e goes behind the elements it is not less than
SortInsert(sorted, e) ==
  LET k == Cardinality({ i \in 1 .. Len(sorted) : ~EventLess(e, sorted[i]) })
  IN SubSeq(sorted, 1, k) \o <<e>> \o SubSeq(sorted, k + 1, Len(sorted))

RECURSIVE SortFrom(_, _, _)
SortFrom(events, i, sorted) ==
  IF i > Len(events) THEN sorted
  ELSE SortFrom(events, i + 1, SortInsert(sorted, events[i]))

sort(events) == SortFrom(events, 1, <<>>)

\* variant: a one-shot task that fired is not put on to_delete
ToDeleteForgotten(to_delete, id) == to_delete

\* to_delete.push_back(task.id) (line 106)
ToDelete(to_delete, id) == Append(to_delete, id)

\* the while loop of lines 101-109 for one task, after `passes` passes.  Every
\* pass found next_run_ms <= now_ms; there are TimeModulus values of
\* next_run_ms, so after TimeModulus passes of a periodic task a value has come
\* back and the loop never ends (ends = FALSE).
RECURSIVE WhileDue(_, _, _, _)
WhileDue(task, now_ms, events, passes) ==
  IF ~(task.next_run_ms <= now_ms)
    THEN [task |-> task, events |-> events, erase |-> FALSE, ends |-> TRUE]
  ELSE IF ~(task.period_ms > 0)
    THEN [task |-> task, events |-> Append(events, <<task.next_run_ms, task.id>>),
          erase |-> TRUE, ends |-> TRUE]
  ELSE IF passes = TimeModulus
    THEN [task |-> task, events |-> events, erase |-> FALSE, ends |-> FALSE]
  ELSE WhileDue([task EXCEPT !.next_run_ms = U64(@ + task.period_ms)], now_ms,
                Append(events, <<task.next_run_ms, task.id>>), passes + 1)

\* the orders in which the unordered_map may be iterated (line 99)
Orders(S) ==
  { f \in [1 .. Cardinality(S) -> S] :
      \A i, j \in 1 .. Cardinality(S) : i # j => f[i] # f[j] }

\* the for loop of lines 99-110 from the i-th task of the iteration on
RECURSIVE ForTasks(_, _, _, _, _, _)
ForTasks(order, i, map, events, to_delete, now_ms) ==
  IF i > Len(order)
    THEN [tasks |-> map, events |-> events, to_delete |-> to_delete, ends |-> TRUE]
  ELSE LET r == WhileDue(map[order[i]], now_ms, events, 0)
       IN IF ~r.ends
            THEN [tasks |-> map, events |-> events, to_delete |-> to_delete,
                  ends |-> FALSE]
            ELSE ForTasks(order, i + 1, [map EXCEPT ![order[i]] = r.task], r.events,
                          IF r.erase THEN ToDelete(to_delete, order[i]) ELSE to_delete,
                          now_ms)

\* ready_tasks.push(event.id) for every event (lines 114-116)
RECURSIVE PushAll(_, _, _)
PushAll(ready, events, i) ==
  IF i > Len(events) THEN ready
  ELSE PushAll(Append(ready, events[i][2]), events, i + 1)

\* tasks.erase(id) for every id of to_delete (lines 118-120)
RECURSIVE EraseAll(_, _, _)
EraseAll(map, to_delete, i) ==
  IF i > Len(to_delete) THEN map
  ELSE EraseAll(Erase(map, to_delete[i]), to_delete, i + 1)

\* lines 82-121.  A call whose while loop never ends does not return: the
\* scheduler is then left as it was, since no caller sees it again.
scheduler_update(scheduler, now_ms) ==
  /\ call.returns
  /\ IF scheduler = NULL
       THEN /\ call' = [NoCall EXCEPT !.op = "scheduler_update",
                          !.null_arg = TRUE]
            /\ UNCHANGED <<tasks, ready_tasks>>
       ELSE \E order \in Orders(DOMAIN tasks) :
              LET r == ForTasks(order, 1, tasks, <<>>, <<>>, now_ms)
                  events == sort(r.events)
              IN IF ~r.ends
                   THEN /\ call' = [NoCall EXCEPT !.op = "scheduler_update",
                                      !.ms = now_ms, !.returns = FALSE]
                        /\ UNCHANGED <<tasks, ready_tasks>>
                   ELSE /\ ready_tasks' = PushAll(ready_tasks, events, 1)
                        /\ Len(ready_tasks') <= MaxReady
                        /\ tasks' = EraseAll(r.tasks, r.to_delete, 1)
                        /\ call' = [NoCall EXCEPT !.op = "scheduler_update",
                                      !.ms = now_ms, !.events = events]
  /\ UNCHANGED <<next_id, removed, counterVars>>

\* variant: the loop runs while count <= buffer_size
MayTakeOneMore(count, buffer_size) == count <= buffer_size

\* count < buffer_size (line 129)
MayTake(count, buffer_size) == count < buffer_size

\* the while loop of lines 129-132: out_buffer[count++] = front(); pop()
RECURSIVE TakeReady(_, _, _)
TakeReady(ready, out_buffer, buffer_size) ==
  IF MayTake(Len(out_buffer), buffer_size) /\ ready # <<>>
    THEN TakeReady(Tail(ready), Append(out_buffer, Head(ready)), buffer_size)
    ELSE [ready_tasks |-> ready, out_buffer |-> out_buffer]

\* lines 123-135
scheduler_get_ready_tasks(scheduler, out_buffer, buffer_size) ==
  /\ call.returns
  /\ IF scheduler = NULL \/ out_buffer = NULL
       THEN /\ call' = [NoCall EXCEPT !.op = "scheduler_get_ready_tasks", !.ret = 0,
                          !.null_arg = TRUE]
            /\ UNCHANGED ready_tasks
       ELSE IF buffer_size = 0
       THEN /\ call' = [NoCall EXCEPT !.op = "scheduler_get_ready_tasks", !.ret = 0]
            /\ UNCHANGED ready_tasks
       ELSE LET r == TakeReady(ready_tasks, <<>>, buffer_size)
            IN /\ ready_tasks' = r.ready_tasks
               /\ call' = [NoCall EXCEPT !.op = "scheduler_get_ready_tasks",
                             !.buffer_size = buffer_size,
                             !.ret = Len(r.out_buffer), !.out_buffer = r.out_buffer]
  /\ UNCHANGED <<next_id, tasks, removed, counterVars>>

\* ------------------------------------------------------- the whole program
EmptyShards == [sh \in Shards |-> EmptyMap]
NoLocks == [sh \in Shards |-> {}]

\* the state main reaches at line 191, its workers spawned, given what the
\* directory iterator may yield
InitOf(lists) ==
  /\ threads \in 1 .. MaxThreads
  /\ top_m \in TopMs
  /\ min_len \in MinLens
  /\ mainPc = "push"
  /\ toPush \in lists
  /\ pushed = <<>>
  /\ q = <<>> /\ mtx = {} /\ waiters = {} /\ producer_done = FALSE
  /\ pc = [w \in Workers |-> "pop"]
  /\ file_path = [w \in Workers |-> ""]
  /\ local_counts = [w \in Workers |-> EmptyMap]
  /\ todo = [w \in Workers |-> {}]
  /\ cur = [w \in Workers |-> <<>>]
  /\ tmp = [w \in Workers |-> 0]
  /\ global_counts = EmptyShards
  /\ global_counts_mtx = NoLocks
  /\ popped = <<>> /\ late_pop = FALSE /\ closes = 0
  /\ output = <<>>
  /\ line = <<>> /\ local_map = EmptyMap /\ map_before = EmptyMap /\ tokPc = "idle"
  /\ scheduler_create

Init == InitOf(FileLists)

Next ==
  \/ MainPushLock
  \/ MainPush
  \/ MainFsError
  \/ MainSetDoneLock
  \/ MainSetDone
  \/ MainJoin
  \/ MainRank
  \/ \E w \in Workers : PopLock(w)
  \/ \E w \in Workers : PopWait(w)
  \/ \E w \in Workers : PopWake(w)
  \/ \E w \in Workers : SpuriousWake(w)
  \/ \E w \in Workers : PopEnd(w)
  \/ \E w \in Workers : PopTake(w)
  \/ \E w \in Workers : OpenFail(w)
  \/ \E w \in Workers : ReadFile(w)
  \/ \E w \in Workers : MergeLock(w)
  \/ \E w \in Workers : MergeRead(w)
  \/ \E w \in Workers : MergeWrite(w)

Spec == Init /\ [][Next]_vars

\* The steps a thread takes of its own accord: nothing obliges the directory
\* iterator to throw or a condition variable to wake a waiter spuriously.
MainProgress ==
  MainPushLock \/ MainPush \/ MainSetDoneLock \/ MainSetDone \/ MainJoin \/ MainRank

WorkerProgress(w) ==
  \/ PopLock(w) \/ PopWait(w) \/ PopWake(w) \/ PopEnd(w) \/ PopTake(w)
  \/ OpenFail(w) \/ ReadFile(w)
  \/ MergeLock(w) \/ MergeRead(w) \/ MergeWrite(w)

\* Every thread that can run does run, and a thread that asks for a mutex which
\* is free again and again gets it (no thread is starved of a std::mutex).
Fairness ==
  /\ SF_vars(MainProgress)
  /\ \A w \in 1 .. MaxThreads : SF_vars(w \in Workers /\ WorkerProgress(w))

\* The runs whose termination is checked: a directory of a readable and an
\* unreadable file, listed either way and cut short wherever the iterator throws.
FairLists == { <<FileA, FileU>>, <<FileU, FileA>> }

InitFair == InitOf(FairLists)

FairSpec == InitFair /\ [][Next]_vars /\ Fairness

\* ------------------------------------------- a queue that is closed again
NextClose == Next \/ MainSetDoneAgain

\* the program with a main thread that calls set_done up to MaxCloses times
\* before it joins
SpecClose == InitFair /\ [][NextClose]_vars

\* ------------------------------------------- parse_line_and_count alone
the_cat_sat == <<116, 104, 101, 32, 99, 97, 116, 32, 115, 97, 116>>
a_bee_cat_dogs == <<97, 32, 98, 101, 101, 32, 99, 97, 116, 32, 100, 111, 103, 115>>

\* 'a', 'B', '7', '_', ' ', '@'
TokChars == {97, 66, 55, 95, 32, 64}

RECURSIVE SeqsUpTo(_, _)
SeqsUpTo(S, n) ==
  IF n = 0 THEN { <<>> }
  ELSE LET shorter == SeqsUpTo(S, n - 1)
       IN shorter \cup { Append(t, c) : t \in { u \in shorter : Len(u) = n - 1 }, c \in S }

TokLines == SeqsUpTo(TokChars, MaxLineLen) \cup {the_cat_sat, a_bee_cat_dogs}

\* local_counts as an earlier line may have left it
TokMaps == { EmptyMap, [w \in { <<97>>, <<99, 97, 116>> } |-> 1] }

InitTok ==
  /\ threads = 1 /\ top_m \in TopMs
  /\ min_len \in 1 .. MaxMinLen
  /\ mainPc = "push" /\ toPush = <<>> /\ pushed = <<>>
  /\ q = <<>> /\ mtx = {} /\ waiters = {} /\ producer_done = FALSE
  /\ pc = [w \in Workers |-> "read"]
  /\ file_path = [w \in Workers |-> ""]
  /\ local_counts = [w \in Workers |-> EmptyMap]
  /\ todo = [w \in Workers |-> {}]
  /\ cur = [w \in Workers |-> <<>>]
  /\ tmp = [w \in Workers |-> 0]
  /\ global_counts = EmptyShards
  /\ global_counts_mtx = NoLocks
  /\ popped = <<>> /\ late_pop = FALSE /\ closes = 0
  /\ output = <<>>
  /\ line \in TokLines
  /\ map_before \in TokMaps
  /\ local_map = map_before
  /\ tokPc = "call"
  /\ scheduler_create

\* parse_line_and_count(line, min_len, local_map) (lines 122-141)
ParseLine ==
  /\ tokPc = "call"
  /\ local_map' = parse_line_and_count(line, min_len, local_map)
  /\ tokPc' = "returned"
  /\ UNCHANGED <<cfgVars, mainVars, queueVars, workerVars, shardVars, hist, output,
                 line, map_before, schedVars>>

NextTok == ParseLine

SpecTok == InitTok /\ [][NextTok]_vars

\* ------------------------------------------------------ the ranking alone
\* words a merged table may hold: "a", "ab", "b", "_"
RankWords == { <<97>>, <<97, 98>>, <<98>>, <<95>> }

\* every table the merges can leave: each word in the shard of its hash, with
\* a count of 1 .. MaxCount
TablesOf(counts) ==
  [sh \in Shards |->
     [w \in { x \in DOMAIN counts : get_shard_index(x) = sh } |-> counts[w]]]

InitRank ==
  /\ threads = 1 /\ min_len \in MinLens
  /\ top_m \in 1 .. MaxTopM
  /\ mainPc = "rank" /\ toPush = <<>> /\ pushed = <<>>
  /\ q = <<>> /\ mtx = {} /\ waiters = {} /\ producer_done = TRUE
  /\ pc = [w \in Workers |-> "done"]
  /\ file_path = [w \in Workers |-> ""]
  /\ \E ws \in SUBSET RankWords : \E counts \in [ws -> 1 .. MaxCount] :
       global_counts = TablesOf(counts)
  /\ local_counts = [w \in Workers |-> EmptyMap]
  /\ todo = [w \in Workers |-> {}]
  /\ cur = [w \in Workers |-> <<>>]
  /\ tmp = [w \in Workers |-> 0]
  /\ global_counts_mtx = NoLocks
  /\ popped = <<>> /\ late_pop = FALSE /\ closes = 1
  /\ output = <<>>
  /\ line = <<>> /\ local_map = EmptyMap /\ map_before = EmptyMap /\ tokPc = "idle"
  /\ scheduler_create

NextRank == MainRank

SpecRank == InitRank /\ [][NextRank]_vars

\* ------------------------------------------ the scheduler and its callers
\* names a caller passes: "t1", a name of NAME_SIZE - 1 characters and a name
\* of NAME_SIZE characters
t1 == <<116, 49>>
NameOfLen(n) == [i \in 1 .. n |-> 120]
Names == {t1, NameOfLen(NAME_SIZE - 1), NameOfLen(NAME_SIZE)}

Ids == 0 .. (IdModulus - 1)
Times == 0 .. (TimeModulus - 1)

\* the <<period_ms, start_ms>> a task is registered with in the round trip
RoundTripPlans == { <<3, 5>>, <<0, 2>> }

\* the argument lists of the calls of a caller that registers, looks up,
\* counts and removes tasks, a call with each null pointer among them
AddTaskCalls ==
  ({TheScheduler} \X Names \X RoundTripPlans)
    \cup { <<NULL, t1, <<0, 0>>>>, <<TheScheduler, NullName, <<0, 0>>>> }
RemoveTaskCalls == ({TheScheduler} \X Ids) \cup { <<NULL, 0>> }
GetTaskInfoCalls ==
  ({TheScheduler} \X Ids \X {"info"}) \cup { <<NULL, 0, "info">>, <<TheScheduler, 0, NULL>> }

NextTasks ==
  \/ \E a \in AddTaskCalls : scheduler_add_task(a[1], a[2], a[3][1], a[3][2])
  \/ \E a \in RemoveTaskCalls : scheduler_remove_task(a[1], a[2])
  \/ \E a \in GetTaskInfoCalls : scheduler_get_task_info(a[1], a[2], a[3])
  \/ \E scheduler \in Schedulers : scheduler_get_task_count(scheduler)

\* the periods and start times of the tasks that are run
Periods == {0, 5}
Starts == {0, 2}

\* the argument lists of a caller that registers and removes tasks, advances
\* the clock to any time and fetches the ready ids
AddCalls ==
  ({TheScheduler} \X {t1} \X (Periods \X Starts))
    \cup { <<NULL, t1, <<0, 0>>>>, <<TheScheduler, NullName, <<0, 0>>>> }
UpdateCalls == ({TheScheduler} \X Times) \cup { <<NULL, 0>> }
GetReadyCalls ==
  ({TheScheduler} \X {"buffer"} \X (0 .. MaxReady))
    \cup { <<NULL, "buffer", 1>>, <<TheScheduler, NULL, 1>> }

NextSched ==
  \/ \E a \in AddCalls : scheduler_add_task(a[1], a[2], a[3][1], a[3][2])
  \/ \E a \in RemoveTaskCalls : scheduler_remove_task(a[1], a[2])
  \/ \E a \in UpdateCalls : scheduler_update(a[1], a[2])
  \/ \E a \in GetReadyCalls : scheduler_get_ready_tasks(a[1], a[2], a[3])

\* the word counter is not running: the state of InitRank after MainRank
CounterAtRest ==
  /\ threads = 1 /\ min_len = 1 /\ top_m = 1
  /\ mainPc = "done" /\ toPush = <<>> /\ pushed = <<>>
  /\ q = <<>> /\ mtx = {} /\ waiters = {} /\ producer_done = TRUE
  /\ pc = [w \in Workers |-> "done"]
  /\ file_path = [w \in Workers |-> ""]
  /\ local_counts = [w \in Workers |-> EmptyMap]
  /\ todo = [w \in Workers |-> {}]
  /\ cur = [w \in Workers |-> <<>>]
  /\ tmp = [w \in Workers |-> 0]
  /\ global_counts = EmptyShards
  /\ global_counts_mtx = NoLocks
  /\ popped = <<>> /\ late_pop = FALSE /\ closes = 1
  /\ output = <<>>
  /\ line = <<>> /\ local_map = EmptyMap /\ map_before = EmptyMap /\ tokPc = "idle"

InitSched == CounterAtRest /\ scheduler_create

SpecTasks == InitSched /\ [][NextTasks]_vars

SpecSched == InitSched /\ [][NextSched]_vars

\* ================================================================ claims
AllWorkersDone == \A w \in Workers : pc[w] = "done"

\* pop(w) returns in this step: false when the consumer leaves its while loop,
\* true when it goes on to read file_path
PopReturnsFalse(w) == pc[w] = "pop_locked" /\ pc'[w] \in {"merge_lock", "done"}
PopReturnsTrue(w) == pc[w] = "pop_locked" /\ pc'[w] = "read"

\* C1: a pop returns false only from a state where the queue is empty and
\* producer_done is set; a pop that passes its wait while the queue holds an
\* item, before or after set_done, returns true with the front item, which
\* leaves the queue.
C1_PopEndOnlyWhenEmptyAndDone ==
  [][\A w \in Workers :
       /\ PopReturnsFalse(w) => (q = <<>> /\ producer_done)
       /\ (pc[w] = "pop_locked" /\ q # <<>> /\ pc'[w] # "pop_locked")
            => /\ PopReturnsTrue(w)
               /\ file_path'[w] = q[1]
               /\ q' = SubSeq(q, 2, Len(q))]_vars

\* an item was popped after set_done, and a later pop returned false
C1_Witness ==
  /\ late_pop
  /\ \E w \in Workers : pc[w] = "done"

\* C2: once producer_done is set no consumer is left in the condition
\* variable's wait set (the waiting ones were all notified, and a later pop
\* never starts to wait); a pop that holds the mutex with the queue closed and
\* empty returns false; a consumer blocked in pop with the queue closed and
\* empty gets end-of-input; and every worker terminates.
C2_NoConsumerBlockedAfterClose ==
  /\ [](producer_done => waiters = {})
  /\ [](producer_done => \A w \in Workers : ~ENABLED PopWait(w))
  /\ [][\A w \in Workers :
          (producer_done /\ q = <<>> /\ pc[w] = "pop_locked" /\ pc'[w] # "pop_locked")
             => PopReturnsFalse(w)]_vars
  /\ \A w \in 1 .. MaxThreads :
       (w \in Workers /\ producer_done /\ q = <<>> /\ pc[w] = "waiting")
          ~> (w \in Workers /\ pc[w] \in {"merge_lock", "done"})
  /\ <>[]AllWorkersDone

\* set_done was called on a queue nothing was ever pushed to while every
\* consumer was blocked in pop, and all of them have been notified
C2_Witness ==
  /\ producer_done /\ pushed = <<>> /\ threads = MaxThreads
  /\ \A w \in Workers : pc[w] = "waiting" /\ w \notin waiters

\* C3: the paths returned by successful pops, in the order the pops took them
\* under the queue mutex, are a prefix of the paths pushed.
C3_FifoPrefix ==
  /\ Len(popped) <= Len(pushed)
  /\ \A i \in 1 .. Len(popped) : popped[i][1] = pushed[i]

\* two items were in the queue together and both have been popped
C3_Witness ==
  /\ Len(popped) >= 2
  /\ popped[1][1] # popped[2][1]
  /\ Len(pushed) >= 3

\* C4: a pushed path is at any moment either still in the queue or has been
\* popped exactly once, never both and never twice; when all workers have
\* terminated every pushed path has been popped and the queue is empty.
C4_PoppedExactlyOnce ==
  /\ \A path \in Paths :
       Cardinality({ i \in 1 .. Len(pushed) : pushed[i] = path })
         = Cardinality({ i \in 1 .. Len(popped) : popped[i][1] = path })
           + Cardinality({ i \in 1 .. Len(q) : q[i] = path })
  /\ \A i, j \in 1 .. Len(popped) : i # j => popped[i][1] # popped[j][1]
  /\ AllWorkersDone =>
       /\ q = <<>>
       /\ \A i \in 1 .. Len(pushed) : \E j \in 1 .. Len(popped) : popped[j][1] = pushed[i]

\* all workers have terminated and two workers each popped one of three paths
C4_Witness ==
  /\ AllWorkersDone /\ Len(pushed) = 3
  /\ \E i, j \in 1 .. Len(popped) : popped[i][2] # popped[j][2]

\* ------------------------------------------ what the claims measure against
\* alphanumeric or underscore, folded to lowercase
WordCharCodes == (48 .. 57) \cup (65 .. 90) \cup (97 .. 122) \cup {95}
LowerCase(c) == IF c \in 65 .. 90 THEN c + 32 ELSE c

\* the maximal runs of word characters of a line, as <<first, last>>
MaximalRuns(l) ==
  { r \in (1 .. Len(l)) \X (1 .. Len(l)) :
      /\ r[1] <= r[2]
      /\ \A k \in r[1] .. r[2] : l[k] \in WordCharCodes
      /\ (r[1] = 1 \/ l[r[1] - 1] \notin WordCharCodes)
      /\ (r[2] = Len(l) \/ l[r[2] + 1] \notin WordCharCodes) }

RunWord(l, r) == [k \in 1 .. (r[2] - r[1] + 1) |-> LowerCase(l[r[1] + k - 1])]

\* the runs of a line that are long enough, and how many of them spell word
LongRuns(l, m) == { r \in MaximalRuns(l) : r[2] - r[1] + 1 >= m }
RunCount(l, word, m) == Cardinality({ r \in LongRuns(l, m) : RunWord(l, r) = word })

RECURSIVE SumOver(_, _, _)
SumOver(seq, i, word) ==
  IF i > Len(seq) THEN 0 ELSE RunCount(seq[i], word, min_len) + SumOver(seq, i + 1, word)

\* the lines of every pushed path that opens
RECURSIVE LinesOf(_, _)
LinesOf(paths, i) ==
  IF i > Len(paths) THEN <<>>
  ELSE (IF paths[i] = FileU THEN <<>> ELSE Lines(paths[i])) \o LinesOf(paths, i + 1)

TrueCount(word) == SumOver(LinesOf(pushed, 1), 1, word)

\* what the shards hold for a word, over all shards
RECURSIVE StoredFrom(_, _)
StoredFrom(word, sh) ==
  IF sh >= NUM_SHARDS THEN 0
  ELSE (IF word \in DOMAIN global_counts[sh] THEN global_counts[sh][word] ELSE 0)
         + StoredFrom(word, sh + 1)

StoredCount(word) == StoredFrom(word, 0)
StoredWords == UNION { DOMAIN global_counts[sh] : sh \in Shards }
Vocabulary == {foo, bar, baz}

\* the tally one thread builds from the given files, read one after another
RECURSIVE CountsOfFiles(_, _, _)
CountsOfFiles(files, i, map) ==
  IF i > Len(files) THEN map
  ELSE CountsOfFiles(files, i + 1, ParseLines(Lines(files[i]), 1, min_len, map))

\* (count desc, word asc)
RECURSIVE LexLess(_, _)
LexLess(a, b) ==
  IF b = <<>> THEN FALSE
  ELSE IF a = <<>> THEN TRUE
  ELSE IF Head(a) # Head(b) THEN Head(a) < Head(b)
  ELSE LexLess(Tail(a), Tail(b))

RanksBefore(a, b) == a[2] > b[2] \/ (a[2] = b[2] /\ LexLess(a[1], b[1]))

OutputWords == { output[i][1] : i \in 1 .. Len(output) }

\* out is the ranking of counts cut to m entries
IsTopRanking(out, counts, m) ==
  /\ Len(out) = IF m < Cardinality(DOMAIN counts) THEN m ELSE Cardinality(DOMAIN counts)
  /\ \A i \in 1 .. Len(out) : out[i][1] \in DOMAIN counts /\ out[i][2] = counts[out[i][1]]
  /\ \A i, j \in 1 .. Len(out) : i < j => RanksBefore(out[i], out[j])
  /\ \A w \in DOMAIN counts : \A i \in 1 .. Len(out) :
       w \notin { out[k][1] : k \in 1 .. Len(out) } => RanksBefore(out[i], <<w, counts[w]>>)

\* C5: whatever the thread count and the schedule, the printed ranking is the
\* ranking of the tally a single thread would build from the pushed files; for
\* A = "foo foo bar", B = "bar baz foo", min_len = 1, top_m = 2 it is
\* [("foo",3), ("bar",2)].
C5_OutputIndependentOfSchedule ==
  mainPc = "done" =>
    /\ IsTopRanking(output, CountsOfFiles(SelectSeq(pushed, is_open), 1, EmptyMap), top_m)
    /\ ({ pushed[i] : i \in 1 .. Len(pushed) } \ {FileU} = {FileA, FileB}
          /\ min_len = 1 /\ top_m = 2)
         => output = << <<foo, 3>>, <<bar, 2>> >>

\* the scenario ran on two threads, each of which read one of the two files
C5_Witness ==
  /\ mainPc = "done" /\ threads = 2 /\ min_len = 1 /\ top_m = 2
  /\ pushed = <<FileA, FileB>>
  /\ popped[1][2] # popped[2][2]
  /\ output = << <<foo, 3>>, <<bar, 2>> >>

\* C6: when all workers have returned, the shards hold for every word the
\* number of its occurrences as a token in the pushed files that open, and
\* hold no other word.
C6_ShardsHoldTrueCounts ==
  AllWorkersDone =>
    \A word \in Vocabulary \cup StoredWords : StoredCount(word) = TrueCount(word)

\* two workers each counted foo in a file of their own and both merged it
C6_Witness ==
  /\ AllWorkersDone /\ min_len = 1
  /\ \E i, j \in 1 .. Len(popped) :
       /\ popped[i][1] = FileA /\ popped[j][1] = FileB
       /\ popped[i][2] # popped[j][2]
  /\ StoredCount(foo) = 3 /\ StoredCount(bar) = 2 /\ StoredCount(baz) = 1

\* C7: the printed entries are in (count desc, word asc) order, and no word of
\* the table that is left out ranks before a printed one.
C7_RankedByCountThenWord ==
  mainPc = "done" =>
    /\ \A i, j \in 1 .. Len(output) : i < j =>
         \/ output[i][2] > output[j][2]
         \/ (output[i][2] = output[j][2] /\ LexLess(output[i][1], output[j][1]))
    /\ \A w \in StoredWords \ OutputWords : \A i \in 1 .. Len(output) :
         ~RanksBefore(<<w, StoredCount(w)>>, output[i])

\* two words with equal counts were printed, a third with that count was not
C7_Witness ==
  /\ mainPc = "done" /\ Len(output) = 2
  /\ output[1][2] = output[2][2]
  /\ \E w \in StoredWords \ OutputWords : StoredCount(w) = output[2][2]

\* C8: min(top_m, number of distinct words in the table) entries are printed,
\* no word twice, each with its count; with fewer distinct words than top_m
\* all of them are printed, in order.
C8_TopMBounded ==
  mainPc = "done" =>
    /\ Len(output) = IF top_m < Cardinality(StoredWords)
                       THEN top_m ELSE Cardinality(StoredWords)
    /\ \A i, j \in 1 .. Len(output) : i # j => output[i][1] # output[j][1]
    /\ \A i \in 1 .. Len(output) :
         output[i][1] \in StoredWords /\ output[i][2] = StoredCount(output[i][1])
    /\ Cardinality(StoredWords) < top_m =>
         /\ OutputWords = StoredWords
         /\ \A i \in 1 .. (Len(output) - 1) : RanksBefore(output[i], output[i + 1])

\* a table with more words than top_m has been ranked
C8_Witness ==
  /\ mainPc = "done" /\ top_m = 2 /\ Cardinality(StoredWords) = 4 /\ Len(output) = 2

\* a table with fewer words than top_m has been ranked
C8_WitnessFewer ==
  /\ mainPc = "done" /\ top_m = 3 /\ Cardinality(StoredWords) = 2 /\ Len(output) = 2

\* the words of the long enough runs of a line
RunWords(l, m) == { RunWord(l, r) : r \in LongRuns(l, m) }

\* C9: parse_line_and_count adds to the map, for every word, the number of
\* maximal runs of word characters of the line that spell it in lowercase and
\* are at least min_len long, and adds nothing else; "the cat sat" with
\* min_len 1 gives the:1, cat:1, sat:1 and "a bee cat dogs" with min_len 4
\* gives dogs:1.
C9_CountsMaximalRuns ==
  tokPc = "returned" =>
    /\ DOMAIN local_map = DOMAIN map_before \cup RunWords(line, min_len)
    /\ \A word \in DOMAIN local_map :
         local_map[word] = (IF word \in DOMAIN map_before THEN map_before[word] ELSE 0)
                             + RunCount(line, word, min_len)
    /\ (line = the_cat_sat /\ min_len = 1 /\ map_before = EmptyMap) =>
         /\ DOMAIN local_map = { <<116, 104, 101>>, <<99, 97, 116>>, <<115, 97, 116>> }
         /\ \A word \in DOMAIN local_map : local_map[word] = 1
    /\ (line = a_bee_cat_dogs /\ min_len = 4 /\ map_before = EmptyMap) =>
         /\ DOMAIN local_map = { <<100, 111, 103, 115>> }
         /\ local_map[<<100, 111, 103, 115>>] = 1

\* a line that ends in a run was parsed and the run was counted
C9_Witness ==
  /\ tokPc = "returned" /\ line = a_bee_cat_dogs /\ min_len = 4
  /\ map_before = EmptyMap
  /\ local_map = [word \in { <<100, 111, 103, 115>> } |-> 1]

\* C10: a consumer whose file does not open goes back to pop with its tally
\* and the shards untouched, and when all workers have returned the shards
\* hold the tally of the pushed files that open.
C10_UnreadableSkipped ==
  /\ [](AllWorkersDone =>
         LET counts == CountsOfFiles(SelectSeq(pushed, is_open), 1, EmptyMap)
         IN /\ StoredWords = DOMAIN counts
            /\ \A word \in StoredWords : StoredCount(word) = counts[word])
  /\ [][\A w \in Workers :
          (pc[w] = "read" /\ file_path[w] = FileU /\ pc'[w] # "read")
             => /\ pc'[w] = "pop"
                /\ local_counts'[w] = local_counts[w]
                /\ global_counts' = global_counts]_vars

\* a worker popped the unreadable path, then another path, and all is merged
C10_Witness ==
  /\ AllWorkersDone /\ min_len = 1
  /\ \E i, j \in 1 .. Len(popped) :
       i < j /\ popped[i][1] = FileU /\ popped[j][2] = popped[i][2]
  /\ StoredCount(foo) = 3

\* C11: set_done is idempotent: a call on a queue that is already closed
\* leaves the queue contents, the closed flag and the set of blocked consumers
\* as they were and the mutex free, so that every later pop sees what it would
\* have seen without the call: it still returns false only on an empty closed
\* queue and otherwise takes the item at the front.
C11_SetDoneIdempotent ==
  [][ /\ (mainPc = "set_done_locked" /\ producer_done /\ mainPc' = "join")
         => /\ q' = q
            /\ producer_done' = producer_done
            /\ waiters' = waiters
            /\ mtx' = {}
      /\ closes >= 2 =>
           \A w \in Workers :
             /\ PopReturnsFalse(w) => q = <<>> /\ producer_done
             /\ PopReturnsTrue(w) => q # <<>> /\ file_path'[w] = Head(q) /\ q' = Tail(q)
    ]_vars

\* the second call has returned with a path still queued
C11_Witness ==
  /\ closes = 2
  /\ producer_done
  /\ q # <<>>

\* ------------------------------------------------------- the scheduler
TaskCount == Cardinality(DOMAIN tasks)

\* the step is a call of op that got past its null checks
Called(op) == call'.op = op /\ ~call'.null_arg

\* the call before the step was a call of op that got past its null checks
After(op) == call.op = op /\ ~call.null_arg

AddReturnsNewId ==
  Called("scheduler_add_task") => call'.ret # 0 /\ TaskCount' = TaskCount + 1

InfoAfterAdd ==
  (After("scheduler_add_task") /\ Called("scheduler_get_task_info") /\ call'.id = call.ret)
    => /\ call'.success
       /\ call'.info = [id |-> call.ret, name |-> call.name,
                        period_ms |-> call.period_ms, next_run_ms |-> call.ms]

RemoveAfterAdd ==
  /\ (After("scheduler_add_task") /\ Called("scheduler_remove_task") /\ call'.id = call.ret)
       => call'.success /\ TaskCount' = TaskCount - 1
  /\ (After("scheduler_get_task_info") /\ call.success
        /\ Called("scheduler_remove_task") /\ call'.id = call.id)
       => call'.success /\ TaskCount' = TaskCount - 1

InfoAfterRemove ==
  (After("scheduler_remove_task") /\ call.success
     /\ Called("scheduler_get_task_info") /\ call'.id = call.id)
    => ~call'.success

\* C12: the add/get/remove round trip: an add on a non-null scheduler returns
\* a non-zero id and raises the task count by one; get_task_info for that id
\* then succeeds with the id, name, period_ms and next_run_ms = start_ms that
\* were supplied; remove for that id returns true and lowers the count by
\* one, and get_task_info for the id then returns false; a scheduler just
\* created has no task.
C12_RoundTrip ==
  [][ /\ AddReturnsNewId
      /\ InfoAfterAdd
      /\ RemoveAfterAdd
      /\ InfoAfterRemove
      /\ call.op = "scheduler_create" => TaskCount = 0
    ]_vars

\* what a step appended to the ready queue
Appended == SubSeq(ready_tasks', Len(ready_tasks) + 1, Len(ready_tasks'))

Occurrences(seq, x) == Cardinality({ i \in DOMAIN seq : seq[i] = x })

\* the step is a scheduler_update(now) on the scheduler that returned
Updated == Called("scheduler_update") /\ call'.returns

OneShots == { id \in DOMAIN tasks : tasks[id].period_ms = 0 }
Periodic == { id \in DOMAIN tasks : tasks[id].period_ms > 0 }

\* C13: a one-shot task fires exactly once: an update with now < next_run_ms
\* enqueues nothing for it and leaves it registered as it is; an update with
\* now >= next_run_ms enqueues its id exactly once and removes it, so that
\* the task count drops by the number of one-shot tasks that fired; and an
\* update enqueues no id that is not registered, so a task that has fired is
\* not enqueued again.
C13_OneShotFiresOnce ==
  [][ Updated =>
        /\ \A id \in OneShots :
              IF call'.ms < tasks[id].next_run_ms
                THEN /\ Occurrences(Appended, id) = 0
                     /\ id \in DOMAIN tasks' /\ tasks'[id] = tasks[id]
                ELSE /\ Occurrences(Appended, id) = 1
                     /\ id \notin DOMAIN tasks'
        /\ TaskCount' = TaskCount
              - Cardinality({ id \in OneShots : call'.ms >= tasks[id].next_run_ms })
        /\ \A id \in Ids \ DOMAIN tasks : Occurrences(Appended, id) = 0
    ]_vars

\* an update has fired one one-shot task and removed it, and has left one that
\* is not due yet
C13_Witness ==
  /\ call.op = "scheduler_update" /\ call.returns
  /\ \E i \in DOMAIN call.events : call.events[i][2] \notin DOMAIN tasks
  /\ \E id \in OneShots : tasks[id].next_run_ms > call.ms

\* how many run times next_run_ms + k * period_ms (k >= 0) are <= now
DueRuns(task, now) ==
  IF task.next_run_ms > now THEN 0
  ELSE (now - task.next_run_ms) \div task.period_ms + 1

\* C14: a periodic task stays registered and is rescheduled: an update
\* enqueues its id once for every run time start_ms + k * period_ms that is
\* <= now and was not enqueued before, several at once when more than one
\* period has elapsed, and leaves next_run_ms at the first run time > now.
C14_PeriodicRescheduled ==
  [][ Updated =>
        \A id \in Periodic :
          LET due == DueRuns(tasks[id], call'.ms)
          IN /\ Occurrences(Appended, id) = due
             /\ id \in DOMAIN tasks'
             /\ tasks'[id] = [tasks[id] EXCEPT
                                !.next_run_ms = @ + due * tasks[id].period_ms]
    ]_vars

\* the order of the claim on events <<run_time, id>>
RunsBefore(a, b) == a[1] < b[1] \/ (a[1] = b[1] /\ a[2] < b[2])

IsPermutation(a, b) ==
  /\ Len(a) = Len(b)
  /\ \A x \in {a[i] : i \in DOMAIN a} \cup {b[i] : i \in DOMAIN b} :
       Occurrences(a, x) = Occurrences(b, x)

\* C15: the ids one update produces are appended behind the ids that were
\* waiting, in the order of their run times and, among equal run times, of
\* their ids, whatever the order in which the task map was iterated.
C15_ReadyOrder ==
  [][ Updated =>
        /\ \A order \in Orders(DOMAIN tasks) :
              IsPermutation(call'.events,
                            ForTasks(order, 1, tasks, <<>>, <<>>, call'.ms).events)
        /\ \A i, j \in DOMAIN call'.events :
              i < j => RunsBefore(call'.events[i], call'.events[j])
        /\ ready_tasks' = ready_tasks \o [i \in DOMAIN call'.events |-> call'.events[i][2]]
    ]_vars

\* an update has appended two tasks due at the same time
C15_Witness ==
  /\ call.op = "scheduler_update" /\ call.returns
  /\ Len(call.events) = 2
  /\ call.events[1][1] = call.events[2][1]
  /\ call.events[1][2] # call.events[2][2]

\* an update has appended one id behind an id that was waiting
C15_WitnessBehind ==
  /\ call.op = "scheduler_update" /\ call.returns
  /\ Len(call.events) = 1
  /\ Len(ready_tasks) = 2

Min(a, b) == IF a < b THEN a ELSE b

\* C16: get_ready_tasks(buffer, n) returns min(n, pending), writes the oldest
\* pending ids in queue order and removes exactly those; with n = 0 it
\* returns 0 and leaves the queue as it is; it never changes the registered
\* tasks.
C16_GetReady ==
  [][ Called("scheduler_get_ready_tasks") =>
        LET n == call'.buffer_size
            count == Min(n, Len(ready_tasks))
        IN /\ call'.ret = count
           /\ call'.out_buffer = SubSeq(ready_tasks, 1, count)
           /\ ready_tasks' = SubSeq(ready_tasks, count + 1, Len(ready_tasks))
           /\ n = 0 => call'.ret = 0 /\ ready_tasks' = ready_tasks
           /\ tasks' = tasks
    ]_vars

\* a call with n = 1 has taken the older of two pending ids
C16_Witness ==
  /\ call.op = "scheduler_get_ready_tasks"
  /\ call.buffer_size = 1 /\ call.ret = 1
  /\ Len(ready_tasks) = 1
  /\ TaskCount > 0

\* a call with n = 0 has left a pending id in the queue
C16_WitnessZero ==
  /\ call.op = "scheduler_get_ready_tasks" /\ ~call.null_arg
  /\ call.buffer_size = 0 /\ call.ret = 0
  /\ ready_tasks # <<>>

\* ------------------------------------------------- consume, merge, locks
ConsumeStates == {"pop", "pop_locked", "waiting", "read"}
MergeStates == {"merge_lock", "merge_read", "merge_write"}

\* the worker is inside a shard: it holds the shard's lock_guard (lines 171-172)
InShard(w) == pc[w] \in {"merge_read", "merge_write"}

\* C17: a worker merges exactly once and only after its pop returned
\* end-of-input: it enters its merge loop only from a pop that returns false,
\* takes every word of its tally off its list as it writes it, never goes
\* back from merging or from its return to popping or tokenizing, and no
\* shard is written before set_done was called.
C17_MergeOnceAfterEndOfInput ==
  [][ /\ \A w \in Workers :
           /\ (pc[w] \notin MergeStates /\ pc'[w] \in MergeStates)
                => /\ PopReturnsFalse(w) /\ q = <<>> /\ producer_done
                   /\ todo'[w] = DOMAIN local_counts[w]
           /\ pc[w] \in MergeStates => pc'[w] \in MergeStates \cup {"done"}
           /\ pc[w] = "done" => pc'[w] = "done"
           /\ (pc[w] = "merge_write" /\ pc'[w] # "merge_write")
                => /\ cur[w] \in todo[w]
                   /\ pc'[w] = "merge_lock"
                        => todo'[w] = todo[w] \ {cur[w]} /\ cur'[w] \in todo'[w]
                   /\ pc'[w] = "done" => todo[w] = {cur[w]}
      /\ global_counts' # global_counts => producer_done
    ]_vars

\* a worker that tokenized a file has merged and returned while the shards
\* hold words
C17_Witness ==
  /\ \E w \in Workers :
       /\ pc[w] = "done"
       /\ \E i \in DOMAIN popped : popped[i][2] = w /\ is_open(popped[i][1])
  /\ StoredWords # {}

\* the shard entries a step changes, as <<shard, word>>
ChangedEntries ==
  { e \in Entries(global_counts) \cup Entries(global_counts') :
      \/ e \notin Entries(global_counts)
      \/ e \notin Entries(global_counts')
      \/ global_counts[e[1]][e[2]] # global_counts'[e[1]][e[2]] }

\* C18 as stated: no shard entry changes while any worker is still in its
\* consume phase (popping, reading or tokenizing).
C18_NoChangeWhileAnyConsumes ==
  [][ global_counts' # global_counts => \A w \in Workers : pc[w] \notin ConsumeStates ]_vars

\* C18, amended: a shard entry changes only in a merge step of the worker that
\* changes it: that worker is inside the shard, holding its lock, the entry is
\* the one of its current word, and it has left its consume phase; the other
\* workers may still be consuming.
C18_ChangedOnlyByMergeSteps ==
  [][ global_counts' # global_counts =>
        \E w \in Workers :
          /\ InShard(w) /\ pc'[w] # pc[w]
          /\ w \in global_counts_mtx[get_shard_index(cur[w])]
          /\ ChangedEntries = { <<get_shard_index(cur[w]), cur[w]>> }
          /\ \A v \in Workers \ {w} : pc'[v] = pc[v]
    ]_vars

\* one worker has changed an entry of a shard and is about to change it
\* again while another is still reading its file
C18_Witness ==
  \E w, v \in Workers :
    /\ pc[w] = "merge_write"
    /\ cur[w] \in DOMAIN global_counts[get_shard_index(cur[w])]
    /\ pc[v] = "read"

\* C19: per shard at most one worker is inside at any time, and it is the
\* holder of the shard's lock; workers may be inside different shards at the
\* same time.
C19_ShardMutualExclusion ==
  /\ \A sh \in Shards : Cardinality(global_counts_mtx[sh]) <= 1
  /\ \A w \in Workers :
       InShard(w) => global_counts_mtx[get_shard_index(cur[w])] = {w}
  /\ \A w, v \in Workers :
       (w # v /\ InShard(w) /\ InShard(v))
         => get_shard_index(cur[w]) # get_shard_index(cur[v])

\* two workers are inside different shards at the same time
C19_Witness ==
  \E w, v \in Workers :
    /\ w # v /\ InShard(w) /\ InShard(v)
    /\ get_shard_index(cur[w]) # get_shard_index(cur[v])

\* the threads: main is 0
Threads == {0} \cup Workers

\* the shards whose lock is held, and those whose lock t holds
LockedShards == { sh \in Shards : global_counts_mtx[sh] # {} }
HeldShards(t) == { sh \in LockedShards : t \in global_counts_mtx[sh] }

\* t is at a lock() of the queue mutex (lines 93, 99, 100, 112)
WantsQueueMutex(t) ==
  IF t = 0 THEN mainPc \in {"push", "set_done"}
  ELSE pc[t] = "pop" \/ (pc[t] = "waiting" /\ t \notin waiters)

\* t is at the lock_guard of a shard (line 171)
WantsShard(t) == t # 0 /\ pc[t] = "merge_lock"

\* t is blocked by a lock that u holds
WaitsFor(t, u) ==
  \/ WantsQueueMutex(t) /\ u \in mtx
  \/ WantsShard(t) /\ u \in global_counts_mtx[get_shard_index(cur[t])]

\* C20: lock discipline: a thread holds at most one shard lock, never the
\* queue mutex together with a shard lock, the main thread no shard lock at
\* all, a thread that asks for a lock holds none, and in no set of threads
\* does every thread wait for a lock held by a thread of the set.
C20_LockDiscipline ==
  LET locked == LockedShards
      held == [t \in Threads |-> { sh \in locked : t \in global_counts_mtx[sh] }]
      waits == { e \in Threads \X Threads : WaitsFor(e[1], e[2]) }
  IN /\ \A t \in Threads :
          /\ Cardinality(held[t]) <= 1
          /\ t \in mtx => held[t] = {}
          /\ (WantsQueueMutex(t) \/ WantsShard(t)) => t \notin mtx /\ held[t] = {}
     /\ held[0] = {}
     /\ \A S \in SUBSET Threads :
          S # {} => \E t \in S : \A u \in S : <<t, u>> \notin waits

\* a worker waits for the lock of a shard that another worker is inside
C20_Witness ==
  \E w, v \in Workers :
    /\ w # v
    /\ WaitsFor(w, v)
    /\ HeldShards(v) = {get_shard_index(cur[w])}

\* main is in or past the loops that read the shards (lines 210-232)
RankingStarted == mainPc \in {"rank", "done"}

\* C21: the ranked result is built only after the queue was closed and every
\* worker has returned: while main reads the shards or has read them, the
\* queue is closed and no worker is consuming or merging; the step that
\* starts the ranking is the join of all workers; the result is written only
\* by the ranking step, from the shards as they are; and once ranking has
\* started no shard changes and a result once built stays as it is.
C21_RankAfterJoin ==
  /\ [](RankingStarted =>
          /\ producer_done /\ closes >= 1
          /\ AllWorkersDone /\ global_counts_mtx = NoLocks)
  /\ [][/\ (~RankingStarted /\ RankingStarted')
             => mainPc = "join" /\ mainPc' = "rank" /\ AllWorkersDone
        /\ output' # output
             => /\ mainPc = "rank" /\ mainPc' = "done" /\ AllWorkersDone
                /\ \E sorted_words \in Flattenings(global_counts) :
                     output' = Ranked(sorted_words, top_m)
        /\ RankingStarted => global_counts' = global_counts
        /\ mainPc = "done" => output' = output /\ mainPc' = "done"
      ]_vars

\* main has ranked words that two workers merged, each from a file of its own
C21_Witness ==
  /\ mainPc = "done" /\ Len(output) >= 2
  /\ \E i, j \in DOMAIN popped :
       /\ popped[i][2] # popped[j][2]
       /\ is_open(popped[i][1]) /\ is_open(popped[j][1])
  /\ \E sh \in Shards : global_counts[sh] # EmptyMap

\* C22: scheduler_update returns for every set of registered tasks and every
\* now_ms, also when next_run_ms + period_ms wraps around, and when it has
\* returned every task still registered has next_run_ms > now_ms.
C22_UpdateTerminates ==
  [][ Called("scheduler_update") =>
        /\ call'.returns
        /\ \A id \in DOMAIN tasks' : tasks'[id].next_run_ms > call'.ms
    ]_vars

\* the ids that the last call, a scheduler_get_ready_tasks, wrote to out_buffer
ReturnedIds ==
  IF After("scheduler_get_ready_tasks")
    THEN { call.out_buffer[i] : i \in DOMAIN call.out_buffer }
    ELSE {}

\* C23: once scheduler_remove_task(id) has returned true, no later
\* scheduler_get_ready_tasks returns id, whatever calls come in between.
C23_RemovedNeverReady == ReturnedIds \cap removed = {}

====
